---- MODULE Spec2Model ----
(***************************************************************************)
(* Item-item collaborative filtering (src/movie_recommendations.py):       *)
(* the catalog built by Movie_Recommendations.__init__, the per-movie      *)
(* similarity caches, and the operations get_similarity,                   *)
(* compute_similarity, predict_rating and predict_ratings.                 *)
(*                                                                         *)
(* Numbers.  Ratings, similarities and predictions are Python floats.      *)
(* They are modelled as exact rationals <<n, d>> in lowest terms (d > 0).  *)
(* Ratings are drawn from half-point values, for which the sums of         *)
(* differences of compute_similarity are exact in binary floating point.   *)
(***************************************************************************)
EXTENDS Integers, Sequences, FiniteSets, TLC

(* ---------------------------- inputs and bounds ------------------------ *)
(* the ids of the movies file and the user ids of the ratings file *)
Movies == {1, 2}
UserIds == {1, 2}
(* Spec: the rows of the ratings file, the calls made after the constructor *)
MaxRows == 3
MaxCalls == 2
(* SpecDup: a ratings file with repeated rows, over three users *)
DupUserIds == {1, 2, 3}
DupRows == 6
(* SpecPredict: a user with several rated movies, over three movies *)
PredictMovies == {1, 2, 3}
PredictRows == 5
(* SpecBatch: the rows of the test ratings file *)
MaxBatch == 2

(* ---------------------------- rationals -------------------------------- *)
Abs(x) == IF x < 0 THEN -x ELSE x

RECURSIVE Gcd(_, _)
Gcd(a, b) == IF b = 0 THEN a ELSE Gcd(b, a % b)

Rat(n, d) ==
    LET s == IF d < 0 THEN -1 ELSE 1
        g == Gcd(Abs(n), Abs(d))
    IN  <<(s * n) \div g, (s * d) \div g>>

Zero == <<0, 1>>
One == <<1, 1>>
RAdd(x, y) == Rat(x[1] * y[2] + y[1] * x[2], x[2] * y[2])
RSub(x, y) == Rat(x[1] * y[2] - y[1] * x[2], x[2] * y[2])
RMul(x, y) == Rat(x[1] * y[1], x[2] * y[2])
RDiv(x, y) == Rat(x[1] * y[2], x[2] * y[1])
RAbs(x) == <<Abs(x[1]), x[2]>>

(* the ratings a ratings file may hold: 0.5, 2.5 and 5.0 *)
RatingValues == {<<1, 2>>, <<5, 2>>, <<5, 1>>}

(* the ratings of SpecDup and SpecBatch: 0.5 and 5.0; the actual rating of *)
(* a test file row: 4.0                                                    *)
ExtremeRatings == {<<1, 2>>, <<5, 1>>}
ActualValues == {<<4, 1>>}

(* 4.5, the divisor of compute_similarity; 2.5, the fallback prediction *)
MaxDiff == <<9, 2>>
Fallback == <<5, 2>>

(* ---------------------------- dictionaries ----------------------------- *)
Put(f, k, v) == [x \in (DOMAIN f) \cup {k} |-> IF x = k THEN v ELSE f[x]]
Range(s) == {s[i] : i \in DOMAIN s}
Min(S) == CHOOSE x \in S : \A y \in S : x <= y
Max(S) == CHOOSE x \in S : \A y \in S : x >= y

VARIABLES phase, movie_dict, users, user_dict, similarities, computations, ncalls, ret

vars == <<phase, movie_dict, users, user_dict, similarities, computations, ncalls, ret>>

(* the ids of the catalog, and one id that no movies file of the model holds *)
MovieIds == DOMAIN movie_dict
AbsentMovie == Max(MovieIds) + 1
QueryMovieIds == MovieIds \cup {AbsentMovie}

(* unordered pairs of catalog movies, {a} standing for the pair (a, a) *)
Pairs == {{a, b} : a \in MovieIds, b \in MovieIds}

NoRet == [op |-> "none", a |-> 0, b |-> 0, status |-> "none", val |-> Zero,
          hit |-> FALSE, batch |-> <<>>, out |-> <<>>]

RECURSIVE SumLen(_)
SumLen(S) == IF S = {} THEN 0
             ELSE LET m == Min(S) IN Len(users[m]) + SumLen(S \ {m})
NumRows == SumLen(MovieIds)

(* the constructor after the movies file (the titles of ids) has been read *)
Loaded(ids) ==
    /\ phase = "load"
    /\ movie_dict = [m \in ids |-> <<"title", m>>]
    /\ users = [m \in ids |-> <<>>]
    /\ user_dict = <<>>
    /\ similarities = [m \in ids |-> <<>>]
    /\ computations = [p \in {{a, b} : a \in ids, b \in ids} |-> 0]
    /\ ncalls = 0
    /\ ret = NoRet

Init == Loaded(Movies)

(* one row of the training ratings file *)
LoadRow(userid, movieid, movierating) ==
    /\ phase = "load"
    /\ users' = [users EXCEPT ![movieid] = Append(@, userid)]
    /\ user_dict' = IF userid \in DOMAIN user_dict
                    THEN [user_dict EXCEPT ![userid] = Put(@, movieid, movierating)]
                    ELSE Put(user_dict, userid, Put(<<>>, movieid, movierating))
    /\ UNCHANGED <<phase, movie_dict, similarities, computations, ncalls, ret>>

(* a ratings file sorted by user id, then movie id: the next row is not *)
(* before the last one read                                              *)
InOrder(userid, movieid) ==
    IF user_dict = <<>> THEN TRUE
    ELSE LET lastuser == Max(DOMAIN user_dict)
             lastmovie == Max(DOMAIN user_dict[lastuser])
         IN  userid > lastuser \/ (userid = lastuser /\ movieid >= lastmovie)

LoadRowInOrder(userid, movieid, movierating) ==
    /\ InOrder(userid, movieid)
    /\ LoadRow(userid, movieid, movierating)

(* end of the ratings file: the constructor returns *)
FinishLoad ==
    /\ phase = "load"
    /\ phase' = "ready"
    /\ UNCHANGED <<movie_dict, users, user_dict, similarities, computations, ncalls, ret>>

(* ---------------------------- Movie ------------------------------------ *)
(* h = [sims, comp]: the caches, and the number of times the co-rater      *)
(* computation ran for each pair of catalog movies                         *)
RECURSIVE SumDiff(_, _, _)
SumDiff(common, self, other) ==
    IF common = <<>> THEN Zero
    ELSE LET u == Head(common)
         IN  RAdd(RAbs(RSub(user_dict[u][self], user_dict[u][other])),
                  SumDiff(Tail(common), self, other))

(* compute_similarity with the lookup of line 186 made tolerant of a       *)
(* missing movie (movie_dict.get(other_movie_id) with no raters)           *)
compute_similarity_lenient(self, other, h) ==
    LET common_users ==
            IF other \in MovieIds
            THEN SelectSeq(users[self], LAMBDA u : u \in Range(users[other]))
            ELSE <<>>
        h1 == IF other \in MovieIds
              THEN [h EXCEPT !.comp[{self, other}] = @ + 1]
              ELSE h
    IN  IF Len(common_users) = 0
        THEN [status |-> "ok", val |-> Zero, h |-> h1]
        ELSE LET avg_diff == RDiv(SumDiff(common_users, self, other),
                                  <<Len(common_users), 1>>)
                 similarity == RSub(One, RDiv(avg_diff, MaxDiff))
             IN  [status |-> "ok", val |-> similarity,
                  h |-> [h1 EXCEPT !.sims[self] = Put(@, other, similarity)]]

compute_similarity(self, other, h) ==
    IF users[self] # <<>> /\ other \notin MovieIds
    THEN [status |-> "KeyError", val |-> Zero, h |-> h]
    ELSE
      LET common_users ==
              IF other \in MovieIds
              THEN SelectSeq(users[self], LAMBDA u : u \in Range(users[other]))
              ELSE <<>>
          h1 == IF other \in MovieIds
                THEN [h EXCEPT !.comp[{self, other}] = @ + 1]
                ELSE h
      IN  IF Len(common_users) = 0
          THEN [status |-> "ok", val |-> Zero, h |-> h1]
          ELSE LET avg_diff == RDiv(SumDiff(common_users, self, other),
                                    <<Len(common_users), 1>>)
                   similarity == RSub(One, RDiv(avg_diff, MaxDiff))
               IN  [status |-> "ok", val |-> similarity,
                    h |-> [h1 EXCEPT !.sims[self] = Put(@, other, similarity)]]

get_similarity(self, other, h) ==
    IF other \in DOMAIN h.sims[self]
    THEN [status |-> "ok", val |-> h.sims[self][other], hit |-> TRUE, h |-> h]
    ELSE
      LET c == compute_similarity(self, other, h)
      IN  IF c.status = "KeyError"
          THEN [status |-> "BadInput", val |-> Zero, hit |-> FALSE, h |-> c.h]
          ELSE
            LET h1 == [c.h EXCEPT !.sims[self] = Put(@, other, c.val)]
            IN  IF other \notin MovieIds
                THEN [status |-> "BadInput", val |-> Zero, hit |-> FALSE, h |-> h1]
                ELSE [status |-> "ok", val |-> c.val, hit |-> FALSE,
                      h |-> [h1 EXCEPT !.sims[other] = Put(@, self, c.val)]]

(* ---------------------------- Movie_Recommendations -------------------- *)
(* the loop of predict_rating over the movies the user rated. The dict is *)
(* walked in ascending id order: the sums are exact, and a KeyError is     *)
(* raised in the first iteration or in none, so the order changes nothing. *)
RECURSIVE PredictLoop(_, _, _, _, _, _)
PredictLoop(todo, user_id, movie_id, product_1, sim, h) ==
    IF todo = {}
    THEN [status |-> "ok", product_1 |-> product_1, sim |-> sim, h |-> h]
    ELSE
      LET movie == Min(todo)
          rating == user_dict[user_id][movie]
          c == compute_similarity(movie, movie_id, h)
      IN  IF c.status = "KeyError"
          THEN [status |-> "KeyError", product_1 |-> product_1, sim |-> sim, h |-> c.h]
          ELSE PredictLoop(todo \ {movie}, user_id, movie_id,
                           RAdd(product_1, RMul(rating, c.val)),
                           RAdd(sim, c.val), c.h)

(* predict_rating without the early return of lines 60-61 *)
predict_rating_norecall(user_id, movie_id, h) ==
    IF user_id \notin DOMAIN user_dict
    THEN [status |-> "BadInput", val |-> Zero, h |-> h]
    ELSE
      LET l == PredictLoop(DOMAIN user_dict[user_id], user_id, movie_id, Zero, Zero, h)
      IN  IF l.status = "KeyError"
          THEN [status |-> "BadInput", val |-> Zero, h |-> l.h]
          ELSE IF l.sim = Zero
          THEN [status |-> "ok", val |-> Fallback, h |-> l.h]
          ELSE [status |-> "ok", val |-> RDiv(l.product_1, l.sim), h |-> l.h]

(* predict_rating without the division of line 71 *)
predict_rating_undivided(user_id, movie_id, h) ==
    IF user_id \notin DOMAIN user_dict
    THEN [status |-> "BadInput", val |-> Zero, h |-> h]
    ELSE IF movie_id \in DOMAIN user_dict[user_id]
    THEN [status |-> "ok", val |-> user_dict[user_id][movie_id], h |-> h]
    ELSE
      LET l == PredictLoop(DOMAIN user_dict[user_id], user_id, movie_id, Zero, Zero, h)
      IN  IF l.status = "KeyError"
          THEN [status |-> "BadInput", val |-> Zero, h |-> l.h]
          ELSE IF l.sim = Zero
          THEN [status |-> "ok", val |-> Fallback, h |-> l.h]
          ELSE [status |-> "ok", val |-> l.product_1, h |-> l.h]

predict_rating(user_id, movie_id, h) ==
    IF user_id \notin DOMAIN user_dict
    THEN [status |-> "BadInput", val |-> Zero, h |-> h]
    ELSE IF movie_id \in DOMAIN user_dict[user_id]
    THEN [status |-> "ok", val |-> user_dict[user_id][movie_id], h |-> h]
    ELSE
      LET l == PredictLoop(DOMAIN user_dict[user_id], user_id, movie_id, Zero, Zero, h)
      IN  IF l.status = "KeyError"
          THEN [status |-> "BadInput", val |-> Zero, h |-> l.h]
          ELSE IF l.sim = Zero
          THEN [status |-> "ok", val |-> Fallback, h |-> l.h]
          ELSE [status |-> "ok", val |-> RDiv(l.product_1, l.sim), h |-> l.h]

(* the loop of predict_ratings over the rows of the test ratings file *)
RECURSIVE BatchLoop(_, _, _)
BatchLoop(rows, tuples, h) ==
    IF rows = <<>>
    THEN [status |-> "ok", out |-> tuples, h |-> h]
    ELSE
      LET rating == Head(rows)
          p == predict_rating(rating.user, rating.movie, h)
      IN  IF p.status = "BadInput"
          THEN [status |-> "BadInput", out |-> <<>>, h |-> p.h]
          ELSE BatchLoop(Tail(rows),
                         Append(tuples, <<rating.user, movie_dict[rating.movie],
                                          p.val, rating.actual>>),
                         p.h)

(* predict_ratings that catches BadInput and skips the row *)
RECURSIVE BatchLoopSkip(_, _, _)
BatchLoopSkip(rows, tuples, h) ==
    IF rows = <<>>
    THEN [status |-> "ok", out |-> tuples, h |-> h]
    ELSE
      LET rating == Head(rows)
          p == predict_rating(rating.user, rating.movie, h)
      IN  IF p.status = "BadInput"
          THEN BatchLoopSkip(Tail(rows), tuples, p.h)
          ELSE BatchLoopSkip(Tail(rows),
                             Append(tuples, <<rating.user, movie_dict[rating.movie],
                                              p.val, rating.actual>>),
                             p.h)

predict_ratings_skip(rows, h) == BatchLoopSkip(rows, <<>>, h)

predict_ratings(rows, h) == BatchLoop(rows, <<>>, h)

H == [sims |-> similarities, comp |-> computations]

GetSimilarity(a, b) ==
    /\ phase = "ready"
    /\ LET r == get_similarity(a, b, H)
       IN  /\ similarities' = r.h.sims
           /\ computations' = r.h.comp
           /\ ret' = [NoRet EXCEPT !.op = "get_similarity", !.a = a, !.b = b,
                                   !.status = r.status, !.val = r.val, !.hit = r.hit]
    /\ ncalls' = ncalls + 1
    /\ UNCHANGED <<phase, movie_dict, users, user_dict>>

PredictRating(u, m) ==
    /\ phase = "ready"
    /\ LET r == predict_rating(u, m, H)
       IN  /\ similarities' = r.h.sims
           /\ computations' = r.h.comp
           /\ ret' = [NoRet EXCEPT !.op = "predict_rating", !.a = u, !.b = m,
                                   !.status = r.status, !.val = r.val]
    /\ ncalls' = ncalls + 1
    /\ UNCHANGED <<phase, movie_dict, users, user_dict>>

PredictRatings(rows) ==
    /\ phase = "ready"
    /\ LET r == predict_ratings(rows, H)
       IN  /\ similarities' = r.h.sims
           /\ computations' = r.h.comp
           /\ ret' = [NoRet EXCEPT !.op = "predict_ratings", !.status = r.status,
                                   !.batch = rows, !.out = r.out]
    /\ ncalls' = ncalls + 1
    /\ UNCHANGED <<phase, movie_dict, users, user_dict>>

(* ---------------------------- specifications --------------------------- *)
(* Spec: a sorted ratings file of at most MaxRows rows, then at most       *)
(* MaxCalls calls of get_similarity and predict_rating                     *)
Next ==
    \/ \E u \in UserIds, m \in MovieIds, r \in RatingValues :
           NumRows < MaxRows /\ LoadRowInOrder(u, m, r)
    \/ FinishLoad
    \/ \E a \in MovieIds, b \in QueryMovieIds :
           ncalls < MaxCalls /\ GetSimilarity(a, b)
    \/ \E u \in UserIds, m \in QueryMovieIds :
           ncalls < MaxCalls /\ PredictRating(u, m)

Spec == Init /\ [][Next]_vars

(* SpecDup: a sorted ratings file of at most DupRows rows, rows may repeat *)
NextDup ==
    \/ \E u \in DupUserIds, m \in MovieIds, r \in ExtremeRatings :
           NumRows < DupRows /\ LoadRowInOrder(u, m, r)
    \/ FinishLoad
    \/ \E a \in MovieIds, b \in MovieIds :
           ncalls < MaxCalls /\ GetSimilarity(a, b)
    \/ \E u \in DupUserIds, m \in MovieIds :
           ncalls < MaxCalls /\ PredictRating(u, m)

SpecDup == Init /\ [][NextDup]_vars

(* SpecPredict: three movies, a sorted ratings file, one call *)
NextPredict ==
    \/ \E u \in UserIds, m \in MovieIds, r \in RatingValues :
           NumRows < PredictRows /\ LoadRowInOrder(u, m, r)
    \/ FinishLoad
    \/ \E u \in UserIds, m \in QueryMovieIds :
           ncalls = 0 /\ PredictRating(u, m)

SpecPredict == Loaded(PredictMovies) /\ [][NextPredict]_vars

(* SpecBatch: the driver: the constructor on a ratings file of at most     *)
(* MaxRows rows in any order, then one test ratings file                   *)
BatchRows == [user : UserIds, movie : QueryMovieIds, actual : ActualValues]
Batches == UNION {[1..n -> BatchRows] : n \in 0..MaxBatch}

NextBatch ==
    \/ \E u \in UserIds, m \in MovieIds, r \in ExtremeRatings :
           NumRows < MaxRows /\ LoadRow(u, m, r)
    \/ FinishLoad
    \/ \E rows \in Batches :
           ncalls = 0 /\ PredictRatings(rows)

SpecBatch == Init /\ [][NextBatch]_vars

(* ---------------------------- properties ------------------------------- *)
Rated(u) == IF u \in DOMAIN user_dict THEN DOMAIN user_dict[u] ELSE {}
CoRaters(a, b) == Range(users[a]) \cap Range(users[b])

(* C1: whenever a's similarity cache holds an entry for b, b's cache holds *)
(* an entry for a with the same value.                                     *)
CacheSymmetry ==
    \A a \in MovieIds, b \in MovieIds :
        b \in DOMAIN similarities[a] =>
            /\ a \in DOMAIN similarities[b]
            /\ similarities[b][a] = similarities[a][b]

(* C2: after get_similarity(a, b) with a # b, both caches hold the pair,   *)
(* and get_similarity(b, a) returns the value that call returned.          *)
GetSimilaritySymmetric ==
    (ret.op = "get_similarity" /\ ret.b \in MovieIds /\ ret.a # ret.b) =>
        /\ ret.b \in DOMAIN similarities[ret.a]
        /\ ret.a \in DOMAIN similarities[ret.b]
        /\ get_similarity(ret.b, ret.a, H).val = ret.val

(* C3: the co-rater computation of a pair of catalog movies runs at most   *)
(* once, whatever calls are made.                                          *)
ComputedAtMostOnce == \A p \in Pairs : computations[p] <= 1

(* C4: predict_rating(U, M) returns the recorded rating of U for M.        *)
ExactRecall ==
    (ret.op = "predict_rating" /\ ret.b \in Rated(ret.a)) =>
        /\ ret.status = "ok"
        /\ ret.val = user_dict[ret.a][ret.b]

(* the user rated the queried movie and another one differently, and some  *)
(* cache is not empty                                                       *)
ExactRecallWitness ==
    /\ ret.op = "predict_rating"
    /\ ret.b \in Rated(ret.a)
    /\ ret.status = "ok"
    /\ \E x \in Rated(ret.a) : user_dict[ret.a][x] # user_dict[ret.a][ret.b]
    /\ \E a \in MovieIds : similarities[a] # <<>>

(* C5: predict_rating fails with BadInput when the user or the movie is    *)
(* not in the catalog.                                                     *)
UnknownIdRaises ==
    (ret.op = "predict_rating"
        /\ (ret.a \notin DOMAIN user_dict \/ ret.b \notin MovieIds)) =>
        ret.status = "BadInput"

(* a known user, a movie id that is not in the catalog *)
UnknownIdWitness ==
    /\ ret.op = "predict_rating"
    /\ ret.a \in DOMAIN user_dict
    /\ ret.b \notin MovieIds
    /\ ret.status = "BadInput"

(* C6: get_similarity with a movie id that is not in the catalog fails     *)
(* with BadInput on every call.                                            *)
AbsentMovieRaises ==
    (ret.op = "get_similarity" /\ ret.b \notin MovieIds) =>
        ret.status = "BadInput"

(* the similarity of a rated movie x to the target m, as computed *)
Similarity(x, m) == compute_similarity(x, m, H).val

RECURSIVE WeightSum(_, _)
WeightSum(S, m) ==
    IF S = {} THEN Zero
    ELSE LET x == CHOOSE y \in S : TRUE
         IN  RAdd(Similarity(x, m), WeightSum(S \ {x}, m))

RECURSIVE WeightedSum(_, _, _)
WeightedSum(S, u, m) ==
    IF S = {} THEN Zero
    ELSE LET x == CHOOSE y \in S : TRUE
         IN  RAdd(RMul(user_dict[u][x], Similarity(x, m)),
                  WeightedSum(S \ {x}, u, m))

(* C7: for a known user U and a catalog movie M that U has not rated,      *)
(* predict_rating returns 2.5 when the similarities of U's rated movies to *)
(* M sum to 0 (so when no rated movie shares a co-rater with M), and       *)
(* otherwise the sum of rating x similarity divided by the sum of          *)
(* similarities, over all movies U rated.                                  *)
WeightedAverage ==
    (ret.op = "predict_rating" /\ ret.a \in DOMAIN user_dict
        /\ ret.b \in MovieIds /\ ret.b \notin Rated(ret.a)) =>
        /\ ret.status = "ok"
        /\ ret.val = IF WeightSum(Rated(ret.a), ret.b) = Zero
                     THEN Fallback
                     ELSE RDiv(WeightedSum(Rated(ret.a), ret.a, ret.b),
                               WeightSum(Rated(ret.a), ret.b))
        /\ (\A x \in Rated(ret.a) : CoRaters(x, ret.b) = {}) => ret.val = <<5, 2>>

(* two rated movies with different ratings and different non-zero          *)
(* similarities to the target                                              *)
WeightedAverageWitness ==
    /\ ret.op = "predict_rating"
    /\ ret.a \in DOMAIN user_dict
    /\ ret.b \in MovieIds
    /\ ret.b \notin Rated(ret.a)
    /\ ret.status = "ok"
    /\ \E x \in Rated(ret.a), y \in Rated(ret.a) :
           /\ user_dict[ret.a][x] # user_dict[ret.a][y]
           /\ Similarity(x, ret.b) # Similarity(y, ret.b)
           /\ Similarity(x, ret.b) # Zero
           /\ Similarity(y, ret.b) # Zero

RECURSIVE SumAbsDiff(_, _, _)
SumAbsDiff(S, a, b) ==
    IF S = {} THEN Zero
    ELSE LET u == CHOOSE v \in S : TRUE
         IN  RAdd(RAbs(RSub(user_dict[u][a], user_dict[u][b])),
                  SumAbsDiff(S \ {u}, a, b))

(* 1 - (mean over the set of co-raters of |rating of a - rating of b|) / 4.5 *)
SetSimilarity(a, b) ==
    IF CoRaters(a, b) = {} THEN Zero
    ELSE RSub(One, RDiv(RDiv(SumAbsDiff(CoRaters(a, b), a, b),
                             <<Cardinality(CoRaters(a, b)), 1>>),
                        <<9, 2>>))

(* C8: the similarity computed for catalog movies a and b is 0 when no     *)
(* user rated both, and otherwise 1 - mean / 4.5 with the mean taken over  *)
(* the set of co-raters, each counted once.                                *)
SimilarityIsSetMean ==
    (ret.op = "get_similarity" /\ ret.status = "ok" /\ ~ret.hit) =>
        ret.val = SetSimilarity(ret.a, ret.b)

BatchRaises(row) == predict_rating(row.user, row.movie, H).status = "BadInput"
FirstRaising(rows) ==
    IF \E i \in DOMAIN rows : BatchRaises(rows[i])
    THEN Min({i \in DOMAIN rows : BatchRaises(rows[i])})
    ELSE Len(rows) + 1

(* the computations of pair p caused by the first n rows of a batch *)
BatchComputations(rows, n, p) ==
    Cardinality({ix \in (1..n) \X MovieIds :
                    /\ ix[2] \in Rated(rows[ix[1]].user)
                    /\ rows[ix[1]].movie \notin Rated(rows[ix[1]].user)
                    /\ {ix[2], rows[ix[1]].movie} = p})

(* C9: predict_ratings returns one tuple (user, title, predict_rating,     *)
(* actual) per row, in input order; if predict_rating raises BadInput for  *)
(* a row, the batch fails with BadInput, returns no list, and no row after *)
(* that one is processed.                                                  *)
BatchContract ==
    (ret.op = "predict_ratings") =>
        LET rows == ret.batch
            k == FirstRaising(rows)
        IN  /\ k > Len(rows) =>
                /\ ret.status = "ok"
                /\ Len(ret.out) = Len(rows)
                /\ \A i \in DOMAIN rows :
                       ret.out[i] = <<rows[i].user, movie_dict[rows[i].movie],
                                      predict_rating(rows[i].user, rows[i].movie, H).val,
                                      rows[i].actual>>
            /\ k <= Len(rows) =>
                /\ ret.status = "BadInput"
                /\ ret.out = <<>>
            /\ \A p \in Pairs :
                   computations[p] =
                       BatchComputations(rows, IF k > Len(rows) THEN Len(rows) ELSE k - 1, p)

(* a batch whose first row is predicted from similarities and whose second *)
(* row raises                                                              *)
BatchWitness ==
    /\ ret.op = "predict_ratings"
    /\ Len(ret.batch) = 2
    /\ FirstRaising(ret.batch) = 2
    /\ ret.status = "BadInput"
    /\ \E p \in Pairs : computations[p] > 0

(* C10: a similarity-cache entry, once written, is never removed and never *)
(* changes its value.                                                      *)
CacheStable ==
    [][\A a \in MovieIds : \A k \in DOMAIN similarities[a] :
           /\ k \in DOMAIN similarities'[a]
           /\ similarities'[a][k] = similarities[a][k]]_vars
====
